---- MODULE Spec2Model ----
(***************************************************************************)
(* photonai_neuro/brain_atlas.py: the AtlasLibrary cache (get_atlas,       *)
(* get_mask and the builders behind them) and the BrainAtlas transformer   *)
(* (transform, inverse_transform, _get_rois).                              *)
(*                                                                         *)
(* Volumes are flat voxel arrays over 1..NVox in C order.  None is the     *)
(* empty tuple and a present optional value x is <<x>>.  Thresholds are    *)
(* counted in halves (0.5 is 1, 2 is 4), so that both the default mask     *)
(* threshold 0.5 and whole label thresholds are integers.                  *)
(***************************************************************************)
EXTENDS Integers, Sequences, FiniteSets, TLC

VARIABLES LIBRARY, ret, ba, out

vars == <<LIBRARY, ret, ba, out>>

----------------------------------------------------------------------------
(* Bounds of the model *)

\* voxels per volume
NVox == 5
\* objects the cache may come to hold, summed over all keys
MaxObjects == 2
\* largest voxel value of a subject volume
MaxVal == 3
\* largest number of subjects in one transform call
MaxSubjects == 2

Voxels == 1..NVox

None == <<>>

----------------------------------------------------------------------------
(* Sequence helpers standing for list and numpy primitives *)

RECURSIVE SortedSeq(_)
\* sorted(S) of a finite set of integers
SortedSeq(S) ==
    IF S = {} THEN <<>>
    ELSE LET m == CHOOSE x \in S : \A y \in S : x <= y
         IN  <<m>> \o SortedSeq(S \ {m})

Range(s) == {s[i] : i \in 1..Len(s)}

\* the values of the array as they come, neither sorted nor deduplicated
unique_raw(map) == [v \in 1..Len(map) |-> map[v]]

\* np.unique(map): the ascending, duplicate-free values of the array
unique(map) == SortedSeq(Range(map))

\* np.sum(b) of a boolean array
CountTrue(b) == Cardinality({v \in 1..Len(b) : b[v]})

RECURSIVE Flatten(_)
Flatten(ss) == IF ss = <<>> THEN <<>> ELSE Head(ss) \o Flatten(Tail(ss))

\* [x for x in s if P(x)]
Filter(s, P(_)) == SelectSeq(s, P)

----------------------------------------------------------------------------
(* The files of the installation *)

\* the built-in atlas names (a subset of the table)
ATLAS_DICTIONARY == {"AAL", "Yeo_7"}

\* the built-in mask names (a subset of the table)
MASK_DICTIONARY == {"MNI_ICBM152_WholeBrain"}

\* a file of the caller, usable as a custom atlas or as a custom mask
CustomFile == "custom.nii.gz"

\* a name that is neither built in nor a file
MissingFile == "XXXXX"

\* path.isfile
isfile(p) == p = CustomFile

\* image.load_img(path).get_fdata(): the voxel values of each volume file
FileData(name) ==
    CASE name = "AAL" ->
            [v \in Voxels |-> IF v = 1 THEN 0 ELSE ((v - 2) % 3) + 1]
      [] name = "Yeo_7" ->
            [v \in Voxels |-> IF v = 1 THEN 0 ELSE ((v - 2) % 2) + 1]
      [] name = "MNI_ICBM152_WholeBrain" ->
            [v \in Voxels |-> IF v = 1 THEN 0 ELSE 1]
      [] OTHER ->
            [v \in Voxels |-> IF v = NVox THEN 0 ELSE ((v - 1) % 3) + 1]

\* Path(labels_file).is_file(): built-in atlases ship <basename>_labels.txt,
\* the custom file has none
HasLabelsFile(name) == name \in ATLAS_DICTIONARY

\* pd.read_table(labels_file): index -> label, as (index, label) rows
LabelsFile(name) ==
    IF name = "AAL"
    THEN <<<<1, "Hippocampus_L">>, <<2, "Hippocampus_R">>, <<3, "Amygdala_L">>>>
    ELSE <<<<0, "NONE">>, <<1, "Visual">>, <<2, "Somatomotor">>>>

----------------------------------------------------------------------------
(* str() of the values that enter a cache key or a label *)

\* str(mask_threshold): 'None', '0.5', '2'
strThreshold(t) ==
    IF t = None THEN "None"
    ELSE IF t[1] % 2 = 0 THEN ToString(t[1] \div 2)
    ELSE ToString(t[1] \div 2) \o ".5"

\* str(target_affine), str(target_shape)
strSpace(a) == IF a = None THEN "None" ELSE a[1]

\* str(i) of a map index: the map is float64 unless astype(int) ran
strIndex(i, isInt) == IF isInt THEN ToString(i) ELSE ToString(i) \o ".0"

\* the tuple used as cache key
Key(name, affine, shape, threshold) ==
    <<name, strSpace(affine), strSpace(shape), strThreshold(threshold)>>

----------------------------------------------------------------------------
(* Objects of photonai_neuro.objects, as records *)

\* RoiObject(index, label, size): mask is None until it is built
RoiObject(index, label, size) ==
    [index |-> index, label |-> label, size |-> size,
     mask |-> None, is_empty |-> FALSE]

\* AtlasObject: map, indices and roi_list are filled by the builder
AtlasObject(name, gen) ==
    [kind |-> "atlas", gen |-> gen, name |-> name, map |-> None,
     isInt |-> FALSE, indices |-> <<>>, roi_list |-> <<>>,
     mask |-> None, is_empty |-> FALSE]

\* MaskObject: mask is filled by the builder
MaskObject(name, gen) ==
    [kind |-> "mask", gen |-> gen, name |-> name, map |-> None,
     isInt |-> FALSE, indices |-> <<>>, roi_list |-> <<>>,
     mask |-> None, is_empty |-> FALSE]

\* the identity of the object a build creates for key k: the cache never
\* deletes, so the n-th object stored under k is told apart by n
NewGen(lib, k) == IF k \in DOMAIN lib THEN lib[k].gen + 1 ELSE 1

\* objects stored so far, over all keys
TotalBuilds(lib) ==
    LET RECURSIVE Sum(_)
        Sum(S) == IF S = {} THEN 0
                  ELSE LET k == CHOOSE x \in S : TRUE
                       IN  lib[k].gen + Sum(S \ {k})
    IN  Sum(DOMAIN lib)

----------------------------------------------------------------------------
(* AtlasLibrary *)

\* an exception leaves the cache as it was
Raise(lib, exc) == [outcome |-> exc, lib |-> lib]

\* image.resample_img(..., interpolation='nearest'): the target grid reads
\* the source grid mirrored
resample_img(data) == [v \in Voxels |-> data[NVox + 1 - v]]

\* nib.aff2axcodes of an affine
aff2axcodes(affine) == affine[1]

\* AtlasLibrary._resample: the resampled image carries the target affine,
\* and its axis codes are compared with the target's
_resample(data, target_affine, target_shape) ==
    IF target_affine # None /\ target_shape # None
    THEN LET mask == [data |-> resample_img(data), affine |-> target_affine]
             orient_data == aff2axcodes(target_affine)
             orient_roi == aff2axcodes(mask.affine)
         IN  IF ~(orient_roi = orient_data)
             THEN [outcome |-> "ValueError", data |-> data]
             ELSE [outcome |-> "ok", data |-> mask.data]
    ELSE [outcome |-> "ok", data |-> data]

\* atlas_object.map[atlas_object.map < mask_threshold] = 0, then astype(int)
ApplyThreshold(map, mask_threshold) ==
    IF mask_threshold = None THEN map
    ELSE [v \in DOMAIN map |->
            IF 2 * map[v] < mask_threshold[1] THEN 0 ELSE map[v]]

\* labels_dict of the labels file, with 0 -> 'Background' added when the
\* file does not name 0 and the map holds it
labels_dict(name, indices) ==
    LET rows == LabelsFile(name)
        file == [i \in {rows[n][1] : n \in 1..Len(rows)} |->
                    (CHOOSE r \in Range(rows) : r[1] = i)[2]]
    IN  IF 0 \notin DOMAIN file /\ 0 \in Range(indices)
        THEN (0 :> "Background") @@ file
        ELSE file

\* np.sum(i == atlas_object.map)
RoiSize(map, i) == Cardinality({v \in DOMAIN map : map[v] = i})

\* the fallback roi_list: labels are str(index)
IndexRois(map, indices, isInt) ==
    [n \in 1..Len(indices) |->
        RoiObject(indices[n], strIndex(indices[n], isInt), RoiSize(map, indices[n]))]

\* the roi_list labelled from labels_dict
LabelRois(map, indices, labels) ==
    [n \in 1..Len(indices) |->
        RoiObject(indices[n], labels[indices[n]], RoiSize(map, indices[n]))]

\* the loop that gives every ROI of nonzero size its mask
WithMask(map, roi) ==
    IF roi.size = 0 THEN roi
    ELSE LET m == [v \in DOMAIN map |-> map[v] = roi.index]
         IN  [roi EXCEPT !.mask = <<m>>, !.is_empty = (CountTrue(m) = 0)]

\* the branch taken when the labels file and the map disagree: the error
\* message formats self.indices, and AtlasLibrary has no such attribute
LabelMismatch(lib, map, indices, isInt) == Raise(lib, "AttributeError")

\* the store at the end of _add_atlas_to_library
StoreAtlas(lib, k, atlas_object) == [outcome |-> "ok", lib |-> (k :> atlas_object) @@ lib]

\* _check_custom_atlas without the isfile test
_check_custom_atlas_any(atlas_file) == "ok"

\* AtlasLibrary._check_custom_atlas
_check_custom_atlas(atlas_file) ==
    IF ~isfile(atlas_file) THEN "FileNotFoundError" ELSE "ok"

\* AtlasLibrary._add_atlas_to_library
_add_atlas_to_library(lib, atlas_name, target_affine, target_shape, mask_threshold) ==
    LET k == Key(atlas_name, target_affine, target_shape, mask_threshold)
        found == IF atlas_name \in ATLAS_DICTIONARY THEN "ok"
                 ELSE _check_custom_atlas(atlas_name)
    IN  IF found # "ok" THEN Raise(lib, found)
        ELSE
        LET rs == _resample(FileData(atlas_name), target_affine, target_shape)
        IN  IF rs.outcome # "ok" THEN Raise(lib, rs.outcome)
            ELSE
            LET map == ApplyThreshold(rs.data, mask_threshold)
                isInt == mask_threshold # None
                indices == unique(map)
                finish(rois) ==
                    StoreAtlas(lib, k,
                        [AtlasObject(atlas_name, NewGen(lib, k)) EXCEPT
                            !.map = map, !.isInt = isInt, !.indices = indices,
                            !.roi_list = [n \in 1..Len(rois) |-> WithMask(map, rois[n])]])
            IN  IF HasLabelsFile(atlas_name)
                THEN LET labels == labels_dict(atlas_name, indices)
                     IN  IF ~(SortedSeq(Range(indices)) = SortedSeq(DOMAIN labels))
                         THEN LabelMismatch(lib, map, indices, isInt)
                         ELSE finish(LabelRois(map, indices, labels))
                ELSE finish(IndexRois(map, indices, isInt))

\* get_atlas looking up the three-part key that get_mask looks up
AtlasCached_short(lib, atlas_name, target_affine, target_shape, mask_threshold) ==
    <<atlas_name, strSpace(target_affine), strSpace(target_shape)>> \in DOMAIN lib

\* the membership test of get_atlas
AtlasCached(lib, atlas_name, target_affine, target_shape, mask_threshold) ==
    Key(atlas_name, target_affine, target_shape, mask_threshold) \in DOMAIN lib

\* the result of a library call: the cache after it, and what it returned
Returned(op, args, r, built) ==
    [op |-> op, args |-> args, key |-> Key(args[1], args[2], args[3], args[4]),
     outcome |-> r.outcome, built |-> built,
     lib |-> r.lib,
     obj |-> IF r.outcome = "ok"
             THEN <<r.lib[Key(args[1], args[2], args[3], args[4])]>>
             ELSE None]

\* AtlasLibrary.get_atlas
get_atlas(lib, atlas_name, target_affine, target_shape, mask_threshold) ==
    LET args == <<atlas_name, target_affine, target_shape, mask_threshold>>
    IN  IF ~AtlasCached(lib, atlas_name, target_affine, target_shape, mask_threshold)
        THEN Returned("get_atlas", args,
                      _add_atlas_to_library(lib, atlas_name, target_affine,
                                            target_shape, mask_threshold), TRUE)
        ELSE Returned("get_atlas", args, [outcome |-> "ok", lib |-> lib], FALSE)

\* AtlasLibrary._check_custom_mask
_check_custom_mask(mask_file) ==
    IF ~isfile(mask_file) THEN "FileNotFoundError" ELSE "ok"

\* image.math_img('img > {}'.format(mask_threshold), img=mask_file)
math_img(data, mask_threshold) ==
    [v \in DOMAIN data |-> IF 2 * data[v] > mask_threshold[1] THEN 1 ELSE 0]

\* the empty check flagging the mask and storing it all the same
EmptyMaskCheck_store(lib, k, mask_object) ==
    [outcome |-> "ok",
     lib |-> (k :> [mask_object EXCEPT !.is_empty =
                (Cardinality({v \in DOMAIN mask_object.mask[1] :
                                mask_object.mask[1][v] # 0}) = 0)]) @@ lib]

\* the empty check of _add_mask_to_library: an empty mask is raised, not stored
EmptyMaskCheck(lib, k, mask_object) ==
    IF Cardinality({v \in DOMAIN mask_object.mask[1] : mask_object.mask[1][v] # 0}) = 0
    THEN Raise(lib, "ValueError")
    ELSE [outcome |-> "ok", lib |-> (k :> mask_object) @@ lib]

\* AtlasLibrary._add_mask_to_library
_add_mask_to_library(lib, mask_name, target_affine, target_shape, mask_threshold) ==
    LET k == Key(mask_name, target_affine, target_shape, mask_threshold)
        found == IF mask_name \in MASK_DICTIONARY THEN "ok"
                 ELSE _check_custom_mask(mask_name)
    IN  IF found # "ok" THEN Raise(lib, found)
        ELSE
        LET thresholded == math_img(FileData(mask_name), mask_threshold)
            rs == IF target_affine # None /\ target_shape # None
                  THEN _resample(thresholded, target_affine, target_shape)
                  ELSE [outcome |-> "ok", data |-> thresholded]
        IN  IF rs.outcome # "ok" THEN Raise(lib, rs.outcome)
            ELSE EmptyMaskCheck(lib, k,
                    [MaskObject(mask_name, NewGen(lib, k)) EXCEPT
                        !.mask = <<rs.data>>])

\* the membership test of get_mask: the key it looks up has three parts,
\* the keys of the cache have four
MaskCached(lib, mask_name, target_affine, target_shape, mask_threshold) ==
    <<mask_name, strSpace(target_affine), strSpace(target_shape)>> \in DOMAIN lib

\* AtlasLibrary.get_mask
get_mask(lib, mask_name, target_affine, target_shape, mask_threshold) ==
    LET args == <<mask_name, target_affine, target_shape, mask_threshold>>
        k == Key(mask_name, target_affine, target_shape, mask_threshold)
    IN  IF ~MaskCached(lib, mask_name, target_affine, target_shape, mask_threshold)
        THEN Returned("get_mask", args,
                      _add_mask_to_library(lib, mask_name, target_affine,
                                           target_shape, mask_threshold), TRUE)
        ELSE IF k \in DOMAIN lib
             THEN Returned("get_mask", args, [outcome |-> "ok", lib |-> lib], FALSE)
             ELSE Returned("get_mask", args, Raise(lib, "KeyError"), FALSE)

\* list_rois taking the unsupported name for a custom atlas and resolving it
Unsupported_resolve(lib, atlas) ==
    LET r == get_atlas(lib, atlas, None, None, None)
    IN  [outcome |-> r.outcome, lib |-> r.lib, called |-> TRUE, logged |-> 1,
         warnings |-> 1, roi_names |-> <<>>]

\* list_rois of a name outside ATLAS_DICTIONARY: logger.warning writes a log
\* record, warnings.warn emits the warning, and the list is empty
Unsupported(lib, atlas) ==
    [outcome |-> "ok", lib |-> lib, called |-> FALSE, logged |-> 1, warnings |-> 1,
     roi_names |-> <<>>]

\* AtlasLibrary.list_rois
list_rois(lib, atlas) ==
    IF atlas \notin ATLAS_DICTIONARY
    THEN Unsupported(lib, atlas)
    ELSE LET r == get_atlas(lib, atlas, None, None, None)
         IN  [outcome |-> r.outcome, lib |-> r.lib, called |-> TRUE, logged |-> 0,
              warnings |-> 0,
              roi_names |-> IF r.outcome = "ok"
                            THEN [n \in 1..Len(r.obj[1].roi_list) |->
                                    r.obj[1].roi_list[n].label]
                            ELSE <<>>]

----------------------------------------------------------------------------
(* numpy values: an array is its rank and its nested rows; a scalar has     *)
(* rank 0                                                                   *)

Arr(rank, data) == [rank |-> rank, data |-> data]

\* X[i] for an integer i, counted from 0
Item(X, i) ==
    IF X.rank = 0 \/ i >= Len(X.data) THEN [outcome |-> "IndexError", val |-> X]
    ELSE [outcome |-> "ok", val |-> Arr(X.rank - 1, X.data[i + 1])]

\* a[0].size of the rows of an array
RowSize(X) == IF X.rank <= 1 THEN 1 ELSE Len(X.data[1])

\* self.mask_indices == i: elementwise for an ndarray; a list (or None)
\* compared with an int is the single value False
EqualsIndex(mask_indices, i) ==
    IF mask_indices.kind = "array"
    THEN [scalar |-> FALSE,
          bits |-> [n \in 1..Len(mask_indices.data) |-> mask_indices.data[n] = i]]
    ELSE [scalar |-> TRUE, bits |-> <<>>]

\* X[b]: a boolean array keeps the rows where it is True and must be as
\* long as X; the single value False gives an array with a leading axis of
\* length 0
BoolIndex(X, b) ==
    IF b.scalar THEN [outcome |-> "ok", val |-> Arr(X.rank + 1, <<>>)]
    ELSE IF X.rank = 0 \/ Len(X.data) # Len(b.bits)
         THEN [outcome |-> "IndexError", val |-> X]
         ELSE LET keep == SortedSeq({n \in 1..Len(b.bits) : b.bits[n]})
              IN  [outcome |-> "ok",
                   val |-> Arr(X.rank, [n \in 1..Len(keep) |-> X.data[keep[n]]])]

RECURSIVE DropLeadingOnes(_)
\* broadcasting ignores leading axes of length 1
DropLeadingOnes(V) ==
    IF V.rank > 1 /\ Len(V.data) = 1 THEN DropLeadingOnes(Arr(V.rank - 1, V.data[1]))
    ELSE V

\* the ascending positions where a boolean volume is True
TruePositions(mask) == SortedSeq({v \in 1..Len(mask) : mask[v]})

\* unmasked[mask_data] = V: the values go to the True voxels in C order
Assign(unmasked, mask, V) ==
    LET pos == TruePositions(mask)
        W == DropLeadingOnes(V)
        At(v) == CHOOSE n \in 1..Len(pos) : pos[n] = v
    IN  IF W.rank = 0
        THEN [outcome |-> "ok",
              val |-> [v \in DOMAIN unmasked |-> IF mask[v] THEN W.data ELSE unmasked[v]]]
        ELSE IF W.rank = 1 /\ Len(W.data) = 1
        THEN [outcome |-> "ok",
              val |-> [v \in DOMAIN unmasked |-> IF mask[v] THEN W.data[1] ELSE unmasked[v]]]
        ELSE IF W.rank = 1 /\ Len(W.data) = Len(pos)
        THEN [outcome |-> "ok",
              val |-> [v \in DOMAIN unmasked |-> IF mask[v] THEN W.data[At(v)] ELSE unmasked[v]]]
        ELSE [outcome |-> "ValueError", val |-> unmasked]

----------------------------------------------------------------------------
(* BrainAtlas *)

\* a comparison of the first element that keeps its case
lower_keepcase(str) == str

\* str.lower() of the strings a rois list starts with
lower(str) == IF str \in {"all", "ALL", "All"} THEN "all" ELSE str

\* label in query_list: only a string of the list can equal a label
LabelIn(label, query_list) ==
    \E n \in 1..Len(query_list) : query_list[n].t = "str" /\ query_list[n].label = label

\* index in query_list: only a number of the list can equal an index
IndexIn(index, query_list) ==
    \E n \in 1..Len(query_list) : query_list[n].t = "int" /\ query_list[n].index = index

\* find_rois_by_label walking the query list instead of the roi_list
find_rois_by_label_listorder(atlas_obj, query_list) ==
    Flatten([n \in 1..Len(query_list) |->
        LET hit(roi) == query_list[n].t = "str" /\ query_list[n].label = roi.label
        IN  SelectSeq(atlas_obj.roi_list, hit)])

\* AtlasLibrary.find_rois_by_label
find_rois_by_label(atlas_obj, query_list) ==
    LET hit(roi) == LabelIn(roi.label, query_list)
    IN  SelectSeq(atlas_obj.roi_list, hit)

\* AtlasLibrary.find_rois_by_index
find_rois_by_index(atlas_obj, query_list) ==
    LET hit(roi) == IndexIn(roi.index, query_list)
    IN  SelectSeq(atlas_obj.roi_list, hit)

\* the ROIs other than the background
NonBackground(atlas_obj, background_id) ==
    LET hit(roi) == roi.index # background_id
    IN  SelectSeq(atlas_obj.roi_list, hit)

\* BrainAtlas._get_rois
_get_rois(atlas_obj, which_rois, background_id) ==
    IF which_rois.t = "str"
    THEN IF which_rois.label = "all"
         THEN [outcome |-> "ok", rois |-> NonBackground(atlas_obj, background_id)]
         ELSE [outcome |-> "ok", rois |-> find_rois_by_label(atlas_obj, <<which_rois>>)]
    ELSE IF which_rois.t = "int"
    THEN [outcome |-> "ok", rois |-> find_rois_by_index(atlas_obj, <<which_rois>>)]
    ELSE IF Len(which_rois.elems) = 0
    THEN [outcome |-> "IndexError", rois |-> <<>>]
    ELSE IF which_rois.elems[1].t = "str"
    THEN IF lower(which_rois.elems[1].label) = "all"
         THEN [outcome |-> "ok", rois |-> NonBackground(atlas_obj, background_id)]
         ELSE [outcome |-> "ok", rois |-> find_rois_by_label(atlas_obj, which_rois.elems)]
    ELSE [outcome |-> "ok", rois |-> find_rois_by_index(atlas_obj, which_rois.elems)]

\* NiftiConverter.transform: the volumes in memory and their number
NiftiConverter_transform(X) == [img |-> X, n_subjects |-> Len(X.vols)]

\* BrainMask.get_format_info_from_first_image
get_format_info_from_first_image(X) ==
    LET c == NiftiConverter_transform(X)
        img == IF c.n_subjects > 1
               THEN [c.img EXCEPT !.ndim = 3, !.vols = <<c.img.vols[1]>>]
               ELSE c.img
    IN  [affine |-> <<img.affine>>, shape |-> <<img.shape>>]

\* the values of one volume under a boolean mask, in C order
MaskedValues(vol, mask) ==
    LET pos == TruePositions(mask)
    IN  [n \in 1..Len(pos) |-> vol[pos[n]]]

\* BrainAtlas.apply_mask: series[mask_data].T is (voxels,) for one 3-D
\* volume and (subjects, voxels) for a 4-D series
apply_mask(series, mask) ==
    IF series.ndim = 3
    THEN Arr(1, MaskedValues(series.vols[1], mask))
    ELSE Arr(2, [s \in 1..Len(series.vols) |-> MaskedValues(series.vols[s], mask)])

\* a dict that puts a new key first
SetItem_front(alloc, label, i) ==
    IF \E n \in 1..Len(alloc) : alloc[n][1] = label
    THEN [n \in 1..Len(alloc) |-> IF alloc[n][1] = label THEN <<label, i>> ELSE alloc[n]]
    ELSE <<<<label, i>>>> \o alloc

\* self.roi_allocation[label] = i on a dict that keeps insertion order
SetItem(alloc, label, i) ==
    IF \E n \in 1..Len(alloc) : alloc[n][1] = label
    THEN [n \in 1..Len(alloc) |-> IF alloc[n][1] = label THEN <<label, i>> ELSE alloc[n]]
    ELSE Append(alloc, <<label, i>>)

\* one pass of the extraction loop of transform, for the ROI at position i
RoiStep(st, roi, i, series, n_subjects, collection_mode) ==
    IF st.outcome # "ok" THEN st
    ELSE
    LET alloc == SetItem(st.alloc, roi.label, i)
    IN  IF roi.mask = None
        THEN [st EXCEPT !.alloc = alloc, !.outcome = "TypeError"]
        ELSE
        LET extraction == apply_mask(series, roi.mask[1])
            rows == Len(extraction.data)
        IN  IF collection_mode = "list"
            THEN IF rows > n_subjects
                 THEN [st EXCEPT !.alloc = alloc, !.outcome = "IndexError"]
                 ELSE [st EXCEPT !.alloc = alloc,
                          !.roi_data = [s \in 1..n_subjects |->
                              IF s <= rows
                              THEN Append(st.roi_data[s], extraction.data[s])
                              ELSE st.roi_data[s]],
                          !.mask_indices = Append(st.mask_indices, i)]
            ELSE IF rows = 0
                 THEN [st EXCEPT !.alloc = alloc, !.outcome = "IndexError"]
                 ELSE [st EXCEPT !.alloc = alloc,
                          !.concat = Append(st.concat, extraction),
                          !.mask_indices =
                              Append(st.mask_indices,
                                     [n \in 1..RowSize(extraction) |-> i])]

RECURSIVE RoiLoop(_, _, _, _, _, _)
\* for i, roi in enumerate(roi_objects)
RoiLoop(st, roi_objects, i, series, n_subjects, collection_mode) ==
    IF i >= Len(roi_objects) THEN st
    ELSE RoiLoop(RoiStep(st, roi_objects[i + 1], i, series, n_subjects, collection_mode),
                 roi_objects, i + 1, series, n_subjects, collection_mode)

\* the assembly after the loop, in concat mode
AssembleConcat(st, n_subjects) ==
    IF n_subjects > 1
    THEN IF Len(st.concat) = 0
         THEN [outcome |-> "ValueError", roi_data |-> None, mask_indices |-> None]
         ELSE [outcome |-> "ok",
               roi_data |-> Arr(2, [s \in 1..n_subjects |->
                    Flatten([j \in 1..Len(st.concat) |-> st.concat[j].data[s]])]),
               mask_indices |-> <<[kind |-> "array", data |-> Flatten(st.mask_indices)]>>]
    ELSE [outcome |-> "ok",
          roi_data |-> Arr(IF Len(st.concat) = 0 THEN 1 ELSE st.concat[1].rank + 1,
                           [j \in 1..Len(st.concat) |-> st.concat[j].data]),
          mask_indices |-> <<[kind |-> "list", data |-> st.mask_indices]>>]

\* the test falling back to concat, as its log message says
ModeSupported_fallback(collection_mode) == TRUE

\* the collection_mode test at the head of transform
ModeSupported(collection_mode) ==
    collection_mode = "list" \/ collection_mode = "concat"

\* what a transformer call leaves behind: the instance, the cache, the
\* inner library call (if any) and the call's result
Done(self, lib, call, outcome, X, roi_data, image) ==
    [ba |-> self, lib |-> lib, call |-> call,
     out |-> [outcome |-> outcome, mode |-> self.collection_mode, X |-> X,
              roi_data |-> roi_data, image |-> image]]

\* BrainAtlas.transform
transform(self, lib, X) ==
    LET n_subjects == NiftiConverter_transform(X).n_subjects
    IN  IF ~ModeSupported(self.collection_mode)
        THEN Done(self, lib, None, "ValueError", X, None, None)
        ELSE
        LET fmt == get_format_info_from_first_image(X)
            self1 == [self EXCEPT !.affine = fmt.affine, !.shape = fmt.shape]
            r == get_atlas(lib, self.atlas_name, self1.affine, self1.shape,
                           self.mask_threshold)
        IN  IF r.outcome # "ok"
            THEN Done(self1, r.lib, <<r>>, r.outcome, X, None, None)
            ELSE
            LET sel == _get_rois(r.obj[1], self.rois, self.background_id)
            IN  IF sel.outcome # "ok"
                THEN Done(self1, r.lib, <<r>>, sel.outcome, X, None, None)
                ELSE
                LET st0 == [outcome |-> "ok", alloc |-> self.roi_allocation,
                            roi_data |-> [s \in 1..n_subjects |-> <<>>],
                            concat |-> <<>>, mask_indices |-> <<>>]
                    st == RoiLoop(st0, sel.rois, 0, X, n_subjects,
                                  self.collection_mode)
                    self2 == [self1 EXCEPT !.roi_allocation = st.alloc]
                IN  IF st.outcome # "ok"
                    THEN Done(self2, r.lib, <<r>>, st.outcome, X, None, None)
                    ELSE IF self.collection_mode = "concat"
                    THEN LET a == AssembleConcat(st, n_subjects)
                         IN  IF a.outcome # "ok"
                             THEN Done(self2, r.lib, <<r>>, a.outcome, X, None, None)
                             ELSE Done([self2 EXCEPT !.mask_indices = a.mask_indices],
                                       r.lib, <<r>>, "ok", X, <<a.roi_data>>, None)
                    ELSE Done([self2 EXCEPT !.mask_indices =
                                  <<[kind |-> "list", data |-> st.mask_indices]>>],
                              r.lib, <<r>>, "ok", X,
                              <<Arr(IF Len(sel.rois) = 0 \/ X.ndim = 3 THEN 2 ELSE 3,
                                    st.roi_data)>>, None)

\* the value self.mask_indices is compared as: None before any transform
MaskIndices(self) ==
    IF self.mask_indices = None THEN [kind |-> "none", data |-> <<>>]
    ELSE self.mask_indices[1]

\* one pass of the scatter loop of inverse_transform, for the ROI at position i
ScatterStep(st, self, roi, i, X) ==
    IF st.outcome # "ok" THEN st
    ELSE IF roi.mask = None THEN [st EXCEPT !.outcome = "TypeError"]
    ELSE
    LET picked == IF self.collection_mode = "list" THEN Item(X, i)
                  ELSE BoolIndex(X, EqualsIndex(MaskIndices(self), i))
    IN  IF picked.outcome # "ok" THEN [st EXCEPT !.outcome = picked.outcome]
        ELSE LET a == Assign(st.unmasked, roi.mask[1], picked.val)
             IN  [outcome |-> a.outcome, unmasked |-> a.val]

RECURSIVE ScatterLoop(_, _, _, _, _)
ScatterLoop(st, self, roi_objects, i, X) ==
    IF i >= Len(roi_objects) THEN st
    ELSE ScatterLoop(ScatterStep(st, self, roi_objects[i + 1], i, X),
                     self, roi_objects, i + 1, X)

\* BrainAtlas.inverse_transform; X0 is the volume input the data came from
inverse_transform(self, lib, X, X0) ==
    LET r == get_atlas(lib, self.atlas_name, self.affine, self.shape,
                       self.mask_threshold)
    IN  IF r.outcome # "ok"
        THEN Done(self, r.lib, <<r>>, r.outcome, X0, <<X>>, None)
        ELSE
        LET sel == _get_rois(r.obj[1], self.rois, self.background_id)
        IN  IF sel.outcome # "ok"
            THEN Done(self, r.lib, <<r>>, sel.outcome, X0, <<X>>, None)
            ELSE
            LET st0 == [outcome |-> "ok",
                        unmasked |-> [v \in DOMAIN r.obj[1].map |-> 0]]
                st == ScatterLoop(st0, self, sel.rois, 0, X)
            IN  IF st.outcome # "ok"
                THEN Done(self, r.lib, <<r>>, st.outcome, X0, <<X>>, None)
                ELSE Done(self, r.lib, <<r>>, "ok", X0, <<X>>, <<st.unmasked>>)

----------------------------------------------------------------------------
(* BrainMask *)

\* BrainMask.__init__: mask_image is a name, or a RoiObject passed directly
BrainMask(mask_image, mask_threshold, extract_mode) ==
    [mask_image |-> mask_image, affine |-> None, shape |-> None, masker |-> None,
     extract_mode |-> extract_mode, mask_threshold |-> mask_threshold]

\* isinstance(self.mask_image, str): a name, against a resolved object
MaskName(name) == [t |-> "str", name |-> name, obj |-> None]

MaskResolved(obj) == [t |-> "obj", name |-> "", obj |-> <<obj>>]

\* NiftiMasker(mask_img=...).fit_transform(X): one row per volume, holding
\* its voxels where the mask is not zero
fit_transform(mask, X) ==
    [s \in 1..Len(X.vols) |-> MaskedValues(X.vols[s], [v \in DOMAIN mask |-> mask[v] # 0])]

\* np.mean(single_roi, axis=1), each mean kept as the sum and the count
mean_axis1(single_roi) ==
    [s \in 1..Len(single_roi) |->
        LET RECURSIVE Sum(_)
            Sum(row) == IF row = <<>> THEN 0 ELSE Head(row) + Sum(Tail(row))
        IN  [sum |-> Sum(single_roi[s]), count |-> Len(single_roi[s])]]

\* BrainMask._get_box over the volumes of a list: the span from the first
\* to the last nonzero mask voxel, cut out of every volume
_get_box(X, mask) ==
    LET true_points == {v \in DOMAIN mask : mask[v] # 0}
        corner1 == CHOOSE v \in true_points : \A w \in true_points : v <= w
        corner2 == CHOOSE v \in true_points : \A w \in true_points : v >= w
    IN  [s \in 1..Len(X.vols) |-> SubSeq(X.vols[s], corner1, corner2)]

\* masker.inverse_transform(single_roi): the rows put back on the mask
masker_inverse_transform(mask, rows) ==
    [s \in 1..Len(rows) |->
        LET pos == TruePositions([v \in DOMAIN mask |-> mask[v] # 0])
        IN  [v \in DOMAIN mask |->
                IF mask[v] # 0 /\ \E n \in 1..Len(pos) : pos[n] = v /\ n <= Len(rows[s])
                THEN rows[s][CHOOSE n \in 1..Len(pos) : pos[n] = v] ELSE 0]]

\* what a BrainMask call leaves behind
MaskDone(self, lib, outcome, value) ==
    [ba |-> self, lib |-> lib, outcome |-> outcome, value |-> value]

\* the chain ending in the vector instead of an error
ExtractBranch_vec(self, lib, X, mask, single_roi, box_error) ==
    MaskDone(self, lib, "ok", <<single_roi>>)

\* the extract_mode chain of BrainMask.transform, once single_roi is there;
\* a 3-D input is no list of volumes for _get_box to walk
ExtractBranch(self, lib, X, mask, single_roi, box_error) ==
    IF self.extract_mode = "vec" THEN MaskDone(self, lib, "ok", <<single_roi>>)
    ELSE IF self.extract_mode = "mean"
    THEN MaskDone(self, lib, "ok", <<mean_axis1(single_roi)>>)
    ELSE IF self.extract_mode = "box"
    THEN IF X.ndim = 3 THEN MaskDone(self, lib, box_error, None)
         ELSE MaskDone(self, lib, "ok", <<_get_box(X, mask)>>)
    ELSE IF self.extract_mode = "img"
    THEN MaskDone(self, lib, "ok", <<masker_inverse_transform(mask, single_roi)>>)
    ELSE MaskDone(self, lib, "NameError", None)

\* BrainMask.transform; fit_ok tells whether the backend masking call
\* returned (it may raise for reasons outside this code)
BrainMask_transform(self, lib, X, fit_ok, box_error) ==
    LET fmt == get_format_info_from_first_image(X)
        self1 == IF self.affine = None \/ self.shape = None
                 THEN [self EXCEPT !.affine = fmt.affine, !.shape = fmt.shape]
                 ELSE self
        r == IF self1.mask_image.t = "str"
             THEN get_mask(lib, self1.mask_image.name, self1.affine, self1.shape,
                           self1.mask_threshold)
             ELSE [outcome |-> "ok", lib |-> lib, obj |-> self1.mask_image.obj]
    IN  IF r.outcome # "ok" THEN MaskDone(self1, r.lib, r.outcome, None)
        ELSE
        LET self2 == [self1 EXCEPT !.mask_image = MaskResolved(r.obj[1])]
            obj == r.obj[1]
        IN  IF obj.is_empty THEN MaskDone(self2, r.lib, "ValueError", None)
            ELSE
            LET self3 == [self2 EXCEPT !.masker = <<obj.mask[1]>>]
            IN  IF ~fit_ok THEN MaskDone(self3, r.lib, "ValueError", None)
                ELSE ExtractBranch(self3, r.lib, X, obj.mask[1],
                                   fit_transform(obj.mask[1], X), box_error)

\* BrainMask.inverse_transform
BrainMask_inverse_transform(self, lib, X) ==
    IF ~(self.extract_mode = "vec") THEN MaskDone(self, lib, "NotImplementedError", None)
    ELSE IF self.masker = None THEN MaskDone(self, lib, "AttributeError", None)
    ELSE MaskDone(self, lib, "ok", <<masker_inverse_transform(self.masker[1], X)>>)

----------------------------------------------------------------------------
(* The arguments the callers of the model pass *)

AtlasNameArgs == ATLAS_DICTIONARY \cup {CustomFile, MissingFile}

MaskNameArgs == MASK_DICTIONARY \cup {CustomFile, MissingFile}

\* (target_affine, target_shape): both absent, the affine alone, both given
SpaceArgs == {<<None, None>>, <<<<"RAS">>, None>>, <<<<"RAS">>, <<"S1">>>>}

\* mask_threshold of get_atlas: None (the default) and 2
AtlasThresholdArgs == {None, <<4>>}

\* mask_threshold of get_mask: 0.5 (the default) and 2
MaskThresholdArgs == {<<1>>, <<4>>}

\* the value of ret before any call
NoCall ==
    [op |-> "none", args |-> <<"", None, None, None>>, key |-> <<>>,
     outcome |-> "none", built |-> FALSE, obj |-> None]

\* what a call leaves in ret
Observed(r) ==
    [op |-> r.op, args |-> r.args, key |-> r.key, outcome |-> r.outcome,
     built |-> r.built, obj |-> r.obj]

\* a call may store an object only while the model's cap leaves room
Room(r) == r.lib # LIBRARY => TotalBuilds(LIBRARY) < MaxObjects

\* BrainAtlas.__init__
BrainAtlas(atlas_name, mask_threshold, rois) ==
    [atlas_name |-> atlas_name, extract_mode |-> "vec", collection_mode |-> "concat",
     mask_threshold |-> mask_threshold, background_id |-> 0, rois |-> rois,
     mask_indices |-> None, affine |-> None, shape |-> None,
     roi_allocation |-> <<>>]

\* a rois value: a label, an index, or a list of them
RoiLabel(v) == [t |-> "str", label |-> v, index |-> 0, elems |-> <<>>]

RoiIndex(v) == [t |-> "int", label |-> "", index |-> v, elems |-> <<>>]

RoiList(elems) == [t |-> "list", label |-> "", index |-> 0, elems |-> elems]

\* rois = 'all', the default
RoisAll == RoiLabel("all")

\* the labels the callers put in rois lists
LabelPool == {"Hippocampus_L", "Hippocampus_R", "Amygdala_L"}

\* the lists of two or three distinct labels of the pool, in every order
LabelLists ==
    {<<RoiLabel(a), RoiLabel(b)>> : a, b \in LabelPool} \cup
    {<<RoiLabel(a), RoiLabel(b), RoiLabel(c)>> : a, b, c \in LabelPool}

Distinct(elems) == \A m, n \in 1..Len(elems) : m # n => elems[m] # elems[n]

RoisArgs ==
    {RoisAll, RoiLabel("Hippocampus_R"), RoiIndex(2),
     RoiList(<<RoiIndex(2), RoiIndex(1)>>), RoiList(<<RoiIndex(1), RoiIndex(2)>>),
     RoiList(<<RoiLabel("ALL"), RoiLabel("Hippocampus_R")>>)} \cup
    {RoiList(l) : l \in {x \in LabelLists : Distinct(x)}}

\* subject volumes: voxel v of volume number s holds v * (s + 1) modulo
\* MaxVal + 1
Vol(s) == [v \in Voxels |-> (v * (s + 1)) % (MaxVal + 1)]

\* one 3-D volume (a path or an image)
Input3D(s) == [ndim |-> 3, vols |-> <<Vol(s)>>, affine |-> "RAS", shape |-> "S1"]

\* a 4-D series of n volumes (a list of n paths)
Input4D(s, n) ==
    [ndim |-> 4, vols |-> [j \in 1..n |-> Vol((s + j - 1) % MaxVal)],
     affine |-> "RAS", shape |-> "S1"]

Inputs ==
    {Input3D(s) : s \in 0..(MaxVal - 1)} \cup
    {Input4D(s, n) : s \in 0..(MaxVal - 1), n \in 1..MaxSubjects}

CollectionModes == {"concat", "list", "array"}

\* the value of out before any transformer call
NoOutput ==
    [op |-> "none", last |-> "none", outcome |-> "none", mode |-> "none",
     X |-> None, roi_data |-> None, image |-> None]

----------------------------------------------------------------------------
(* Specification of the library: sequential get_atlas and get_mask calls *)

Init ==
    /\ LIBRARY = <<>>
    /\ ret = NoCall
    /\ ba = BrainAtlas("AAL", None, RoisAll)
    /\ out = NoOutput

GetAtlas ==
    \E name \in AtlasNameArgs, sp \in SpaceArgs, thr \in AtlasThresholdArgs :
        \E r \in {get_atlas(LIBRARY, name, sp[1], sp[2], thr)} :
            /\ Room(r)
            /\ LIBRARY' = r.lib
            /\ ret' = Observed(r)
            /\ UNCHANGED <<ba, out>>

GetMask ==
    \E name \in MaskNameArgs, sp \in SpaceArgs, thr \in MaskThresholdArgs :
        \E r \in {get_mask(LIBRARY, name, sp[1], sp[2], thr)} :
            /\ Room(r)
            /\ LIBRARY' = r.lib
            /\ ret' = Observed(r)
            /\ UNCHANGED <<ba, out>>

Next == GetAtlas \/ GetMask

Spec == Init /\ [][Next]_vars

----------------------------------------------------------------------------
(* Specification of the transformer: one BrainAtlas, constructed with any  *)
(* of the arguments, then transform and inverse_transform calls            *)

InitT ==
    /\ LIBRARY = <<>>
    /\ ret = NoCall
    /\ \E name \in {"AAL", CustomFile, MissingFile}, thr \in AtlasThresholdArgs,
          rois \in RoisArgs :
            ba = BrainAtlas(name, thr, rois)
    /\ out = NoOutput

\* the orchestration layer (or a test) assigns collection_mode
SetCollectionMode ==
    \E mode \in CollectionModes :
        /\ ba.collection_mode # mode
        /\ ba' = [ba EXCEPT !.collection_mode = mode]
        /\ out' = [out EXCEPT !.last = "set"]
        /\ UNCHANGED <<LIBRARY, ret>>

\* what out holds after a transformer call: the call (op), its result, and
\* that the latest step on the instance was a call (last), not an assignment
Result(op, r) ==
    [op |-> op, last |-> "call", outcome |-> r.out.outcome, mode |-> r.out.mode,
     X |-> r.out.X, roi_data |-> r.out.roi_data, image |-> r.out.image]

Transform ==
    \E X \in Inputs :
        \E r \in {transform(ba, LIBRARY, X)} :
            /\ ba' = r.ba
            /\ LIBRARY' = r.lib
            /\ ret' = IF r.call = None THEN ret ELSE Observed(r.call[1])
            /\ out' = Result("transform", r)

\* inverse_transform of what the last transform returned: all of it, or
\* the row of one subject of a series of several
InverseTransform ==
    /\ out.op = "transform"
    /\ out.outcome = "ok"
    /\ \E s \in -1..(MaxSubjects - 1) :
        \E row \in {IF s = -1 THEN [outcome |-> "ok", val |-> out.roi_data[1]]
                    ELSE Item(out.roi_data[1], s)} :
        /\ s # -1 => Len(out.X.vols) > 1 /\ row.outcome = "ok"
        /\ \E r \in {inverse_transform(ba, LIBRARY, row.val,
                                       IF s = -1 THEN out.X ELSE Input3D(0))} :
            /\ ba' = r.ba
            /\ LIBRARY' = r.lib
            /\ ret' = IF r.call = None THEN ret ELSE Observed(r.call[1])
            /\ out' = Result(IF s = -1 THEN "inverse_transform" ELSE "inverse_row", r)

NextT == SetCollectionMode \/ Transform \/ InverseTransform

SpecT == InitT /\ [][NextT]_vars

----------------------------------------------------------------------------
(* Specification of the listing: get_atlas and list_rois calls             *)

\* what a list_rois call leaves in ret
Listed(atlas, r) ==
    [op |-> "list_rois", args |-> <<atlas, None, None, None>>,
     key |-> Key(atlas, None, None, None), outcome |-> r.outcome,
     built |-> r.lib # LIBRARY, obj |-> None, called |-> r.called,
     logged |-> r.logged, warnings |-> r.warnings, roi_names |-> r.roi_names]

ListRois ==
    \E atlas \in AtlasNameArgs :
        \E r \in {list_rois(LIBRARY, atlas)} :
            /\ Room(r)
            /\ LIBRARY' = r.lib
            /\ ret' = Listed(atlas, r)
            /\ UNCHANGED <<ba, out>>

NextL == GetAtlas \/ ListRois

SpecL == Init /\ [][NextL]_vars

----------------------------------------------------------------------------
(* Specification of the mask transformer: one BrainMask, constructed with  *)
(* any of the arguments, then transform and inverse_transform calls        *)

\* the extraction modes callers set: the four supported ones and another
ExtractModes == {"vec", "mean", "box", "img", "max"}

\* a region the caller resolved and passes directly, and an empty one
CallerRoi ==
    [RoiObject(1, "region", 2) EXCEPT
        !.mask = <<[v \in Voxels |-> IF v \in {2, 3} THEN 1 ELSE 0]>>]

EmptyRoi ==
    [RoiObject(2, "nothing", 0) EXCEPT
        !.mask = <<[v \in Voxels |-> 0]>>, !.is_empty = TRUE]

MaskImageArgs ==
    {MaskName(n) : n \in MaskNameArgs} \cup {MaskResolved(CallerRoi), MaskResolved(EmptyRoi)}

InitM ==
    /\ LIBRARY = <<>>
    /\ ret = NoCall
    /\ \E m \in MaskImageArgs, thr \in MaskThresholdArgs, mode \in ExtractModes :
          ba = BrainMask(m, thr, mode)
    /\ out = NoOutput

\* what out holds after a BrainMask call
MaskResult(op, X, fit_ok, r) ==
    [op |-> op, last |-> "call", outcome |-> r.outcome, mode |-> r.ba.extract_mode,
     X |-> X, roi_data |-> r.value, image |-> None, fit_ok |-> fit_ok]

MaskTransform ==
    \E X \in Inputs, fit_ok \in BOOLEAN, box_error \in {"TypeError", "ValueError"} :
        \E r \in {BrainMask_transform(ba, LIBRARY, X, fit_ok, box_error)} :
            /\ Room(r)
            /\ ba' = r.ba
            /\ LIBRARY' = r.lib
            /\ out' = MaskResult("transform", <<X>>, fit_ok, r)
            /\ UNCHANGED ret

\* inverse_transform of what the last transform returned
MaskInverseTransform ==
    /\ out.op = "transform"
    /\ out.outcome = "ok"
    /\ \E r \in {BrainMask_inverse_transform(ba, LIBRARY, out.roi_data[1])} :
        /\ ba' = r.ba
        /\ LIBRARY' = r.lib
        /\ out' = MaskResult("inverse_transform", out.X, TRUE, r)
        /\ UNCHANGED ret

NextM == MaskTransform \/ MaskInverseTransform

SpecM == InitM /\ [][NextM]_vars

----------------------------------------------------------------------------
(* Specification of concurrent callers: two threads of one process call    *)
(* get_atlas; each runs the membership test, then _add_atlas_to_library    *)
(* (whose one access to LIBRARY is its final store), then the read of the  *)
(* return statement, and the threads interleave between these steps.  ret  *)
(* holds the position and the locals of each caller.                       *)

Callers == {"t1", "t2"}

\* the names the concurrent callers ask for
ConcurrentNameArgs == {"AAL", MissingFile}

\* a caller outside any call
Idle ==
    [pc |-> "idle", args |-> <<"", None, None, None>>, key |-> <<>>, saw |-> "none",
     built |-> None, outcome |-> "none", obj |-> None]

\* return AtlasLibrary.LIBRARY[key] taking the object the caller built itself
ReadBack_built(lib, k, built) == IF built # None THEN built ELSE <<lib[k]>>

\* return AtlasLibrary.LIBRARY[key]: the object the cache holds at that moment
ReadBack(lib, k, built) == <<lib[k]>>

InitC ==
    /\ LIBRARY = <<>>
    /\ ret = [p \in Callers |-> Idle]
    /\ ba = BrainAtlas("AAL", None, RoisAll)
    /\ out = NoOutput

\* a caller enters get_atlas
Enter ==
    \E p \in Callers, name \in ConcurrentNameArgs, thr \in AtlasThresholdArgs :
        /\ ret[p].pc = "idle"
        /\ TotalBuilds(LIBRARY) < MaxObjects
        /\ ret' = [ret EXCEPT ![p] =
                [Idle EXCEPT !.pc = "test", !.args = <<name, None, None, thr>>,
                             !.key = Key(name, None, None, thr)]]
        /\ UNCHANGED <<LIBRARY, ba, out>>

\* the membership test of get_atlas
Test ==
    \E p \in Callers :
        /\ ret[p].pc = "test"
        /\ ret' = [ret EXCEPT ![p] =
                IF AtlasCached(LIBRARY, ret[p].args[1], ret[p].args[2], ret[p].args[3],
                               ret[p].args[4])
                THEN [ret[p] EXCEPT !.pc = "return", !.saw = "hit"]
                ELSE [ret[p] EXCEPT !.pc = "add", !.saw = "miss"]]
        /\ UNCHANGED <<LIBRARY, ba, out>>

\* _add_atlas_to_library, up to and with its store
Add ==
    \E p \in Callers :
        /\ ret[p].pc = "add"
        /\ \E r \in {_add_atlas_to_library(LIBRARY, ret[p].args[1], ret[p].args[2],
                                           ret[p].args[3], ret[p].args[4])} :
            /\ r.outcome = "ok" => TotalBuilds(LIBRARY) < MaxObjects
            /\ LIBRARY' = r.lib
            /\ ret' = [ret EXCEPT ![p] =
                    IF r.outcome = "ok"
                    THEN [ret[p] EXCEPT !.pc = "return", !.built = <<r.lib[ret[p].key]>>]
                    ELSE [ret[p] EXCEPT !.pc = "idle", !.outcome = r.outcome]]
        /\ UNCHANGED <<ba, out>>

\* the return statement of get_atlas
Return ==
    \E p \in Callers :
        /\ ret[p].pc = "return"
        /\ ret' = [ret EXCEPT ![p] =
                [ret[p] EXCEPT !.pc = "idle", !.outcome = "ok",
                               !.obj = ReadBack(LIBRARY, ret[p].key, ret[p].built)]]
        /\ UNCHANGED <<LIBRARY, ba, out>>

NextC == Enter \/ Test \/ Add \/ Return

SpecC == InitC /\ [][NextC]_vars

----------------------------------------------------------------------------
(* Specification of a reused transformer: one BrainAtlas on AAL whose rois *)
(* attribute is assigned between transform calls                           *)

\* the rois values assigned to the instance
RoisReassigned ==
    {RoisAll, RoiLabel("Hippocampus_R"), RoiIndex(3),
     RoiList(<<RoiLabel("Amygdala_L"), RoiLabel("Hippocampus_L")>>)}

InitR ==
    /\ LIBRARY = <<>>
    /\ ret = NoCall
    /\ \E rois \in RoisReassigned : ba = BrainAtlas("AAL", None, rois)
    /\ out = NoOutput

\* atlas.rois = ... (attribute assignment)
SetRois ==
    \E rois \in RoisReassigned :
        /\ ba.rois # rois
        /\ ba' = [ba EXCEPT !.rois = rois]
        /\ out' = [out EXCEPT !.last = "set"]
        /\ UNCHANGED <<LIBRARY, ret>>

NextR == SetRois \/ Transform

SpecR == InitR /\ [][NextR]_vars

----------------------------------------------------------------------------
(* Claims about the library, checked under Spec *)

\* C1: for a built-in atlas name, once get_atlas has stored the atlas of a
\* key, the entry never changes, and every later get_atlas with that key
\* succeeds without building and returns the stored object itself.
C1_AtlasBuiltOnce ==
    [][\A k \in DOMAIN LIBRARY :
         k[1] \in ATLAS_DICTIONARY =>
            /\ k \in DOMAIN LIBRARY'
            /\ LIBRARY'[k] = LIBRARY[k]
            /\ (ret'.op = "get_atlas" /\ ret'.key = k) =>
                 (ret'.outcome = "ok" /\ ~ret'.built /\ ret'.obj = <<LIBRARY[k]>>)]_vars

\* a get_atlas call on a built-in atlas that was served from the cache
C1_Witness ==
    /\ ret.op = "get_atlas"
    /\ ret.args[1] \in ATLAS_DICTIONARY
    /\ ret.outcome = "ok"
    /\ ~ret.built
    /\ ret.obj = <<LIBRARY[ret.key]>>

\* C2: once get_mask has stored the mask of a key, every later get_mask
\* with that key finds it, does not rebuild, leaves the entry alone and
\* returns the stored object itself.
C2_MaskBuiltOnce ==
    [][\A k \in DOMAIN LIBRARY :
         (LIBRARY[k].kind = "mask" /\ ret'.op = "get_mask" /\ ret'.key = k) =>
            /\ ret'.outcome = "ok"
            /\ ~ret'.built
            /\ ret'.obj = <<LIBRARY[k]>>
            /\ LIBRARY'[k] = LIBRARY[k]]_vars

\* the voxels of the map a get_atlas call with these arguments builds
BuiltMap(args) ==
    ApplyThreshold(_resample(FileData(args[1]), args[2], args[3]).data, args[4])

\* the arguments name an atlas that exists
AtlasFound(args) == args[1] \in ATLAS_DICTIONARY \/ isfile(args[1])

\* the labels file of the atlas and the built map name different indices
LabelsDisagree(args) ==
    /\ HasLabelsFile(args[1])
    /\ Range(BuiltMap(args)) # DOMAIN labels_dict(args[1], unique(BuiltMap(args)))

\* C7: when the labels file and the map disagree, get_atlas raises nothing,
\* returns an atlas whose every ROI is labelled str(index), and caches it.
C7_MismatchFallsBack ==
    (ret.op = "get_atlas" /\ AtlasFound(ret.args) /\ LabelsDisagree(ret.args)) =>
        /\ ret.outcome = "ok"
        /\ ret.obj # None
        /\ ret.obj[1].kind = "atlas"
        /\ \A n \in 1..Len(ret.obj[1].roi_list) :
              ret.obj[1].roi_list[n].label =
                  strIndex(ret.obj[1].roi_list[n].index, ret.obj[1].isInt)
        /\ ret.key \in DOMAIN LIBRARY
        /\ LIBRARY[ret.key] = ret.obj[1]

\* the threshold empties at least one region of the atlas and leaves at
\* least one
ThresholdEmptiesSome(args) ==
    LET before == Range(_resample(FileData(args[1]), args[2], args[3]).data)
        after == Range(BuiltMap(args))
    IN  /\ args[4] # None
        /\ \E i \in before : i # 0 /\ i \notin after
        /\ \E i \in after : i # 0

\* C8: when mask_threshold empties some but not all regions, get_atlas
\* returns an atlas and caches it, with a labels file or without.
C8_EmptiedRegionNotFatal ==
    (ret.op = "get_atlas" /\ AtlasFound(ret.args) /\ ThresholdEmptiesSome(ret.args)) =>
        /\ ret.outcome = "ok"
        /\ ret.obj # None
        /\ ret.obj[1].kind = "atlas"
        /\ ret.key \in DOMAIN LIBRARY
        /\ LIBRARY[ret.key] = ret.obj[1]

\* the arguments name a mask that exists
MaskFound(args) == args[1] \in MASK_DICTIONARY \/ isfile(args[1])

\* the mask a get_mask call with these arguments builds
BuiltMask(args) ==
    LET m == math_img(FileData(args[1]), args[4])
    IN  IF args[2] # None /\ args[3] # None THEN resample_img(m) ELSE m

PositiveVoxels(mask) == {v \in DOMAIN mask : mask[v] > 0}

\* C9: a get_mask call whose mask has no positive voxel raises ValueError
\* and stores nothing, and no mask without a positive voxel is in the cache.
C9_NoEmptyMaskCached ==
    /\ \A k \in DOMAIN LIBRARY :
          LIBRARY[k].kind = "mask" =>
             /\ ~LIBRARY[k].is_empty
             /\ PositiveVoxels(LIBRARY[k].mask[1]) # {}
    /\ (ret.op = "get_mask" /\ MaskFound(ret.args)
            /\ PositiveVoxels(BuiltMask(ret.args)) = {}) =>
          /\ ret.outcome = "ValueError"
          /\ ret.obj = None
          /\ ret.key \in DOMAIN LIBRARY => LIBRARY[ret.key].kind # "mask"

\* a get_mask call that found its mask empty, with the cache already in use
C9_Witness ==
    /\ ret.op = "get_mask"
    /\ MaskFound(ret.args)
    /\ PositiveVoxels(BuiltMask(ret.args)) = {}
    /\ ret.outcome = "ValueError"
    /\ DOMAIN LIBRARY # {}

----------------------------------------------------------------------------
(* Claims about BrainAtlas, checked under SpecT *)

\* the keys of roi_allocation, in insertion order
AllocKeys(alloc) == [n \in 1..Len(alloc) |-> alloc[n][1]]

\* rois is a list of labels, or a list of indices, that does not ask for 'all'
IsPlainList(rois) ==
    /\ rois.t = "list"
    /\ Len(rois.elems) > 0
    /\ \A n \in 1..Len(rois.elems) : rois.elems[n].t = rois.elems[1].t
    /\ rois.elems[1].t = "str" => lower(rois.elems[1].label) # "all"

\* the list element asks for this ROI
Asks(elem, roi) ==
    \/ elem.t = "str" /\ elem.label = roi.label
    \/ elem.t = "int" /\ elem.index = roi.index

\* the label of the ROI of the atlas with this index
LabelOfIndex(atlas_obj, index) ==
    (CHOOSE roi \in Range(atlas_obj.roi_list) : roi.index = index).label

\* the labels of the requested ROIs the atlas has, in the caller's order
CallerOrder(atlas_obj, rois) ==
    LET found(elem) == \E roi \in Range(atlas_obj.roi_list) : Asks(elem, roi)
        asked == SelectSeq(rois.elems, found)
    IN  [n \in 1..Len(asked) |->
            (CHOOSE roi \in Range(atlas_obj.roi_list) : Asks(asked[n], roi)).label]

\* the labels of the requested ROIs the atlas has, by ascending index
AscendingOrder(atlas_obj, rois) ==
    LET idx == SortedSeq({roi.index : roi \in
                    {r \in Range(atlas_obj.roi_list) :
                        \E n \in 1..Len(rois.elems) : Asks(rois.elems[n], r)}})
    IN  [n \in 1..Len(idx) |-> LabelOfIndex(atlas_obj, idx[n])]

\* roi_allocation as it is when the labels got the positions 0, 1, ... in
\* this order
Allocation(labels) == [n \in 1..Len(labels) |-> <<labels[n], n - 1>>]

\* the step is a transform call
TransformStep == out'.op = "transform" /\ out'.last = "call"

\* a transform call that succeeded on an instance whose roi_allocation was
\* empty and whose rois is a plain list
FreshListTransform ==
    /\ TransformStep
    /\ out'.outcome = "ok"
    /\ ba.roi_allocation = <<>>
    /\ IsPlainList(ba.rois)

\* C3 as stated: transform visits the selected ROIs in the order of the
\* caller's list, so roi_allocation's keys and positions follow that order.
C3_CallerOrder ==
    [][FreshListTransform =>
          ba'.roi_allocation = Allocation(CallerOrder(ret'.obj[1], ba.rois))]_vars

\* C3 amended: transform visits the selected ROIs in the order of the
\* atlas's roi_list, by ascending index, whatever the order of the caller's
\* list: roi_allocation's keys and positions follow the ascending index.
C3_AtlasOrder ==
    [][FreshListTransform =>
          ba'.roi_allocation = Allocation(AscendingOrder(ret'.obj[1], ba.rois))]_vars

\* a successful transform whose caller asked for two ROIs in descending
\* order and got them allocated in ascending order
C3_Witness ==
    /\ out.op = "transform"
    /\ out.outcome = "ok"
    /\ ba.rois = RoiList(<<RoiLabel("Hippocampus_R"), RoiLabel("Hippocampus_L")>>)
    /\ ba.roi_allocation = <<<<"Hippocampus_L", 0>>, <<"Hippocampus_R", 1>>>>

\* the orderings of a list
Orderings(elems) ==
    {p \in [1..Len(elems) -> Range(elems)] :
        \A e \in Range(elems) :
            Cardinality({n \in 1..Len(elems) : p[n] = e}) =
            Cardinality({n \in 1..Len(elems) : elems[n] = e})}

\* C4: after transform on a fresh BrainAtlas the key sequence of
\* roi_allocation is the one every permutation of the requested labels
\* gives, and for all the labels of AAL it is their atlas order.
C4_PermutationInvariant ==
    [][(FreshListTransform /\ ba.rois.elems[1].t = "str") =>
          /\ \A p \in Orderings(ba.rois.elems) :
                AllocKeys(transform([ba EXCEPT !.rois = RoiList(p)],
                                    LIBRARY, out'.X).ba.roi_allocation)
                    = AllocKeys(ba'.roi_allocation)
          /\ (ba.atlas_name = "AAL"
                /\ {ba.rois.elems[n].label : n \in 1..Len(ba.rois.elems)} = LabelPool) =>
                AllocKeys(ba'.roi_allocation) =
                    <<"Hippocampus_L", "Hippocampus_R", "Amygdala_L">>]_vars

\* a successful transform on AAL whose caller listed all the labels in
\* another order than the atlas's
C4_Witness ==
    /\ out.op = "transform"
    /\ out.outcome = "ok"
    /\ ba.atlas_name = "AAL"
    /\ ba.rois = RoiList(<<RoiLabel("Amygdala_L"), RoiLabel("Hippocampus_R"),
                           RoiLabel("Hippocampus_L")>>)
    /\ AllocKeys(ba.roi_allocation) = <<"Hippocampus_L", "Hippocampus_R", "Amygdala_L">>

\* the voxels inside the mask of a ROI that roi_allocation names
InsideSelected(atlas_obj, alloc) ==
    {v \in Voxels :
        \E roi \in Range(atlas_obj.roi_list) :
            /\ roi.label \in Range(AllocKeys(alloc))
            /\ roi.mask # None
            /\ roi.mask[1][v]}

\* C5: in vec mode and collection mode concat, inverse_transform of what
\* transform returned for a single volume succeeds, and gives the volume's
\* voxels inside the selected ROI masks and zero outside them.
C5_RoundTrip ==
    [][(/\ out.op = "transform"
        /\ out.outcome = "ok"
        /\ out.mode = "concat"
        /\ Len(out.X.vols) = 1
        /\ ba.extract_mode = "vec"
        /\ ba.collection_mode = "concat"
        /\ out'.op = "inverse_transform"
        /\ out'.last = "call") =>
          /\ out'.outcome = "ok"
          /\ out'.image # None
          /\ \A v \in Voxels :
                out'.image[1][v] =
                    IF v \in InsideSelected(ret'.obj[1], ba.roi_allocation)
                    THEN out.X.vols[1][v] ELSE 0]_vars

\* C6: with a collection_mode other than 'concat' and 'list', transform
\* raises ValueError, returns nothing, resolves no atlas and writes neither
\* roi_allocation nor mask_indices nor anything else of the instance.
C6_BadModeRaisesFirst ==
    [][(TransformStep /\ ba.collection_mode \notin {"concat", "list"}) =>
          /\ out'.outcome = "ValueError"
          /\ out'.roi_data = None
          /\ out'.image = None
          /\ LIBRARY' = LIBRARY
          /\ ret' = ret
          /\ ba'.roi_allocation = ba.roi_allocation
          /\ ba'.mask_indices = ba.mask_indices
          /\ ba' = ba]_vars

\* a transform call in collection mode 'array' that raised on an instance
\* that had transformed before
C6_Witness ==
    /\ out.op = "transform"
    /\ out.mode = "array"
    /\ out.outcome = "ValueError"
    /\ ba.collection_mode = "array"
    /\ ba.roi_allocation # <<>>
    /\ DOMAIN LIBRARY # {}

----------------------------------------------------------------------------
(* Claims about list_rois, checked under SpecL *)

\* C11: list_rois with a name that is not built in returns the empty list,
\* emits exactly one warning, raises nothing, resolves no atlas and leaves
\* the cache as it was; with a built-in name it returns the labels of the
\* roi_list of the atlas, in roi_list order.
C11_ListRois ==
    [][ret'.op = "list_rois" =>
         /\ ret'.args[1] \notin ATLAS_DICTIONARY =>
               /\ ret'.outcome = "ok"
               /\ ret'.roi_names = <<>>
               /\ ret'.warnings = 1
               /\ ~ret'.called
               /\ LIBRARY' = LIBRARY
         /\ ret'.args[1] \in ATLAS_DICTIONARY =>
               /\ ret'.outcome = "ok"
               /\ ret'.key \in DOMAIN LIBRARY'
               /\ ret'.roi_names =
                     [n \in 1..Len(LIBRARY'[ret'.key].roi_list) |->
                        LIBRARY'[ret'.key].roi_list[n].label]]_vars

\* list_rois was called with a name that is not built in while the cache
\* holds an atlas
C11_Witness ==
    /\ ret.op = "list_rois"
    /\ ret.args[1] \notin ATLAS_DICTIONARY
    /\ ret.warnings = 1
    /\ ret.roi_names = <<>>
    /\ DOMAIN LIBRARY # {}

----------------------------------------------------------------------------
(* Claims about the atlases in the cache, checked under Spec *)

\* C12: every atlas in the cache has indices equal to the ascending,
\* duplicate-free list of the values of its map, and a roi_list with one ROI
\* per index, in the same order, whose size is the count of map voxels equal
\* to that index.
C12_IndicesAreMapValues ==
    \A k \in DOMAIN LIBRARY :
        LIBRARY[k].kind = "atlas" =>
            LET a == LIBRARY[k]
            IN  /\ Range(a.indices) = Range(a.map)
                /\ \A m, n \in 1..Len(a.indices) : m < n => a.indices[m] < a.indices[n]
                /\ Len(a.roi_list) = Len(a.indices)
                /\ \A n \in 1..Len(a.indices) :
                      /\ a.roi_list[n].index = a.indices[n]
                      /\ a.roi_list[n].size =
                            Cardinality({v \in DOMAIN a.map : a.map[v] = a.indices[n]})

\* the cache holds a thresholded atlas of three or more indices, one of them
\* on several voxels, next to an atlas built without a threshold
C12_Witness ==
    /\ \E k \in DOMAIN LIBRARY :
          /\ LIBRARY[k].kind = "atlas"
          /\ k[4] # "None"
          /\ Len(LIBRARY[k].indices) >= 3
          /\ \E n \in 1..Len(LIBRARY[k].roi_list) : LIBRARY[k].roi_list[n].size >= 2
    /\ \E k \in DOMAIN LIBRARY : LIBRARY[k].kind = "atlas" /\ k[4] = "None"

----------------------------------------------------------------------------
(* Claims about ROI selection and list mode, checked under SpecT *)

\* rois asks for all ROIs: the string 'all', or a list whose first element
\* is 'all' in any case
AsksAll(rois) ==
    \/ rois.t = "str" /\ rois.label = "all"
    \/ /\ rois.t = "list"
       /\ Len(rois.elems) > 0
       /\ rois.elems[1].t = "str"
       /\ rois.elems[1].label \in {"all", "All", "ALL"}

\* C13: when rois asks for all ROIs, _get_rois on any atlas of the cache
\* returns every ROI whose index differs from background_id, each once, and
\* no ROI with index background_id, whatever else the list holds.
C13_AllSelectsNonBackground ==
    \A k \in DOMAIN LIBRARY :
        (LIBRARY[k].kind = "atlas" /\ AsksAll(ba.rois)) =>
            LET sel == _get_rois(LIBRARY[k], ba.rois, ba.background_id)
            IN  /\ sel.outcome = "ok"
                /\ Range(sel.rois) =
                      {roi \in Range(LIBRARY[k].roi_list) : roi.index # ba.background_id}
                /\ Cardinality(Range(sel.rois)) = Len(sel.rois)

\* a transform succeeded on an instance whose rois is a list that starts
\* with 'ALL' and goes on with a label, over an atlas with a background
C13_Witness ==
    /\ out.op = "transform"
    /\ out.outcome = "ok"
    /\ ba.rois.t = "list"
    /\ AsksAll(ba.rois)
    /\ Len(ba.rois.elems) > 1
    /\ \E k \in DOMAIN LIBRARY :
          /\ LIBRARY[k].kind = "atlas"
          /\ \E n \in 1..Len(LIBRARY[k].roi_list) :
                LIBRARY[k].roi_list[n].index = ba.background_id
          /\ Len(ba.roi_allocation) = Len(LIBRARY[k].roi_list) - 1

\* what list mode is to return for input X and the selected ROIs: one
\* sequence per subject, holding per ROI the subject's voxels under its mask
ListOfSubjects(X, rois) ==
    [s \in 1..Len(X.vols) |->
        [j \in 1..Len(rois) |-> MaskedValues(X.vols[s], rois[j].mask[1])]]

\* C15: in list mode, a transform whose atlas resolves returns, for n
\* subjects and k selected ROIs, n sequences of k arrays each, the j-th
\* array of subject s being the voxels of s under the mask of the j-th ROI;
\* so also for a single subject.
C15_ListPerSubject ==
    [][(TransformStep /\ ba.collection_mode = "list" /\ ret'.outcome = "ok") =>
         LET sel == _get_rois(ret'.obj[1], ba.rois, ba.background_id)
         IN  /\ out'.outcome = "ok"
             /\ Len(sel.rois) = 0 \/ out'.roi_data[1].rank = 3
             /\ out'.roi_data[1].data = ListOfSubjects(out'.X, sel.rois)]_vars

----------------------------------------------------------------------------
(* Claims about BrainMask, checked under SpecM *)

\* the latest step was a BrainMask.transform call
MaskTransformStep == out'.op = "transform" /\ out'.last = "call"

\* extract_mode is none of the four supported modes
BadExtractMode(self) == self.extract_mode \notin {"vec", "mean", "box", "img"}

\* the call got as far as the extract_mode chain: the mask is resolved, it
\* is not empty, and the backend masking call returned
ReachedExtractBranch ==
    /\ ba'.mask_image.t = "obj"
    /\ ~ba'.mask_image.obj[1].is_empty
    /\ out'.fit_ok

\* C14 as stated: with an unsupported extract_mode, transform raises
\* NameError and returns nothing, for every input and every mask.
C14_AlwaysNameError ==
    [][(MaskTransformStep /\ BadExtractMode(ba)) =>
         (out'.outcome = "NameError" /\ out'.roi_data = None)]_vars

\* C14 amended: with an unsupported extract_mode, transform never returns a
\* value; it raises NameError exactly when the mask resolved, is not empty
\* and the backend masking returned, and otherwise raises the error of the
\* earlier step, FileNotFoundError for a missing mask file and ValueError
\* for an empty mask or a failed masking call.
C14_NameErrorAfterMasking ==
    [][(MaskTransformStep /\ BadExtractMode(ba)) =>
         /\ out'.outcome # "ok"
         /\ out'.roi_data = None
         /\ out'.outcome = "NameError" <=> ReachedExtractBranch
         /\ ~ReachedExtractBranch =>
               IF ba.mask_image.t = "str" /\ ~MaskFound(<<ba.mask_image.name>>)
               THEN out'.outcome = "FileNotFoundError"
               ELSE out'.outcome = "ValueError"]_vars

\* a transform with an unsupported extract_mode raised NameError on a mask
\* that get_mask resolved and cached
C14_Witness ==
    /\ out.op = "transform"
    /\ BadExtractMode(ba)
    /\ out.outcome = "NameError"
    /\ ba.mask_image.t = "obj"
    /\ \E k \in DOMAIN LIBRARY : LIBRARY[k] = ba.mask_image.obj[1]

----------------------------------------------------------------------------
(* Claims about concurrent callers, checked under SpecC *)

\* caller p has returned from a successful get_atlas of key k
Received(p, k) == ret[p].pc = "idle" /\ ret[p].outcome = "ok" /\ ret[p].key = k

\* C16: the membership test and the store are not atomic.  A caller builds
\* only after it saw the key absent, but the key may be stored by another
\* caller in between: the build then replaces the entry of the key, and
\* each caller receives the object the cache holds when it returns, so two
\* callers of one key can receive different objects, and only when the key
\* was built more than once; the key never has more than its one entry.
C16_TestAndStoreRace ==
    [][/\ \A p \in Callers :
            /\ (ret[p].pc = "add" /\ ret'[p].pc = "return") =>
                  /\ ret[p].saw = "miss"
                  /\ LIBRARY'[ret[p].key].gen =
                        (IF ret[p].key \in DOMAIN LIBRARY
                         THEN LIBRARY[ret[p].key].gen + 1 ELSE 1)
            /\ (ret[p].pc = "return" /\ ret'[p].pc = "idle") =>
                  ret'[p].obj = <<LIBRARY[ret[p].key]>>
       /\ \A p, q \in Callers, k \in DOMAIN LIBRARY' :
            (ret'[p].pc = "idle" /\ ret'[p].outcome = "ok" /\ ret'[p].key = k
               /\ ret'[q].pc = "idle" /\ ret'[q].outcome = "ok" /\ ret'[q].key = k
               /\ ret'[p].obj # ret'[q].obj) =>
                  LIBRARY'[k].gen >= 2]_vars

\* both callers saw the same key absent, both built the atlas, they
\* received different objects, and the cache holds one entry for the key
C16_Witness ==
    \E k \in DOMAIN LIBRARY :
        /\ \A p \in Callers :
              /\ Received(p, k)
              /\ ret[p].saw = "miss"
              /\ ret[p].built # None
        /\ ret["t1"].obj # ret["t2"].obj
        /\ Cardinality({j \in DOMAIN LIBRARY : j = k}) = 1
        /\ Cardinality(DOMAIN LIBRARY) = 1
        /\ LIBRARY[k].gen = 2

----------------------------------------------------------------------------
(* Claims about a reused transformer, checked under SpecR *)

\* C17: after every successful transform, also one that follows a change
\* of rois on the same instance, roi_allocation holds exactly the labels of
\* the ROIs that call selected, each with its position in that selection,
\* and nothing from an earlier transform.
C17_AllocationIsSelection ==
    [][(TransformStep /\ out'.outcome = "ok") =>
         LET sel == _get_rois(ret'.obj[1], ba.rois, ba.background_id)
         IN  Range(ba'.roi_allocation) =
                {<<sel.rois[j].label, j - 1>> : j \in 1..Len(sel.rois)}]_vars

====
